---- MODULE Spec2Model ----
(***************************************************************************)
(* TelemetryHooks (claude_telemetry/hooks.py): the session / tool span     *)
(* lifecycle of one controller object, driven by the hook callbacks of the *)
(* agent runtime.  Strings are sequences of one-character strings so that  *)
(* str.startswith and key synthesis are computed, not assumed.             *)
(***************************************************************************)
EXTENDS Integers, Sequences, FiniteSets, TLC

\* ------------------------------------------------------------------ bounds
\* Number of hook calls delivered to the controller in one run.
MaxCalls == 5

\* Number of hook calls in the runs that vary the payloads (prompt text,
\* tool input, tool response).
MaxPayloadCalls == 3

\* Number of hook calls in the runs with payloads around the event caps.
MaxCapCalls == 3

\* prompt[:60], len(prompt) > 60
PreviewLen == 60

\* str(tool_input)[:500]
InputCap == 500

\* response_str[:1000], len(response_str) > 1000
ResponseCap == 1000

\* ------------------------------------------------------------------ inputs
\* Python None / "" (both falsy) for an absent tool_use_id.
None == <<>>

\* Tool names the runtime reports; "R_F" starts with "R_".
ToolNames == { <<"R">>, <<"R", "_", "F">> }

\* Call ids the runtime may supply (None: not supplied).
CallIds == { None, <<"a">>, <<"b">> }

\* Shapes of tool_response: "none" absent, "ok" a value or dict without
\* markers, "error" a dict with an "error" key, "isError" a dict with isError
\* true, "isErrorFalse" a dict with isError false, "errorAndIsError" both.
Responses == { "none", "error" }

\* message.usage as <<input_tokens, output_tokens>> (None: no usage attribute).
Usages == { None, <<1, 0>>, <<0, 2>> }

\* tool_input, by its str(): <<>> stands for an empty (falsy) input.
ToolInputs == { << "{", "}" >> }

\* How far time.time() may have advanced between two readings.
Ticks == { 0, 1 }

\* Does force_flush() raise?
FlushRaises == BOOLEAN

\* ----------------------------------------------------------------- strings
Digit == << "0", "1", "2", "3", "4", "5", "6", "7", "8", "9" >>

\* a text of n characters, the i-th one telling i modulo 10
Text(n) == [i \in 1..n |-> Digit[(i % 10) + 1]]

\* input_data["prompt"]
Prompts == { << "f", "i", "x", " ", "b", "u", "g" >> }

\* prompts around the preview length
LongPrompts == Prompts \cup { Text(PreviewLen - 1), Text(PreviewLen),
                              Text(PreviewLen + 1), Text(PreviewLen + 4) }

\* tool inputs: empty and not
AllToolInputs == { <<>>, << "{", "}" >> }

\* every shape of tool_response
AllResponses == { "none", "ok", "error", "isError", "isErrorFalse",
                  "errorAndIsError" }

\* tool inputs with a str() around the cap of the event
CapToolInputs == { Text(InputCap - 1), Text(InputCap), Text(InputCap + 1) }

\* plain string responses around the cap of the event
CapResponses == { "okBelowCap", "okAtCap", "okOverCap" }

\* str(tool_response) for a shape of response
ResponseStr(resp) ==
    CASE resp = "okBelowCap" -> Text(ResponseCap - 1)
      [] resp = "okAtCap" -> Text(ResponseCap)
      [] resp = "okOverCap" -> Text(ResponseCap + 1)
      [] OTHER -> << "o", "k" >>

\* a text cut at cap with the marker appended when it was longer
Capped(str, cap) ==
    IF Len(str) > cap THEN SubSeq(str, 1, cap) \o << ".", ".", "." >> ELSE str

\* str(tool_input)[:500]
InputEvent(str) == SubSeq(str, 1, IF Len(str) > InputCap THEN InputCap ELSE Len(str))

\* response_str[:1000] + "..." if len(response_str) > 1000 else response_str
ResponseEvent(str) ==
    IF Len(str) > ResponseCap
    THEN SubSeq(str, 1, ResponseCap) \o << ".", ".", "." >>
    ELSE str

RECURSIVE DecStr(_)
\* str() of a non-negative clock reading
DecStr(n) == IF n < 10 THEN << Digit[n + 1] >>
             ELSE DecStr(n \div 10) \o << Digit[(n % 10) + 1] >>

\* str.startswith
StartsWith(s, p) == /\ Len(s) >= Len(p)
                    /\ SubSeq(s, 1, Len(p)) = p

\* a key synthesized without the "_" separator
SynthKeyNoSep(tool_name, t) == tool_name \o DecStr(t)

\* f"{tool_name}_{time.time()}"
SynthKey(tool_name, t) == tool_name \o << "_" >> \o DecStr(t)

\* tool_use_id or f"{tool_name}_{time.time()}"
ToolId(tool_name, tool_use_id, t) ==
    IF tool_use_id # None THEN tool_use_id ELSE SynthKey(tool_name, t)

\* ------------------------------------------------- insertion-ordered dict
\* tool_spans is a Python dict: a sequence of [key, span] in insertion order.
Keys(d) == { d[i].key : i \in 1..Len(d) }

IndexOf(d, k) == CHOOSE i \in 1..Len(d) : d[i].key = k

\* d[k] = v : an existing key keeps its position, a new key goes last.
DictSet(d, k, v) ==
    IF k \in Keys(d)
    THEN [d EXCEPT ![IndexOf(d, k)] = [key |-> k, span |-> v]]
    ELSE Append(d, [key |-> k, span |-> v])

\* del d[d[i].key]
DictDelAt(d, i) == SubSeq(d, 1, i - 1) \o SubSeq(d, i + 1, Len(d))

\* --------------------------------------------------------------- the state
VARIABLES
    session_span,   \* self.session_span: 0 is None, else a span id
    tool_spans,     \* self.tool_spans
    metrics,        \* self.metrics: function from the keys present to values
    messages,       \* self.messages
    tools_used,     \* self.tools_used
    spans,          \* every span the tracer has started, by id (tracer side)
    now,            \* last reading of time.time()
    calls,          \* hook calls delivered so far
    last,           \* the last hook call and what it did
    idRun,          \* every tool call since the table was last empty-started
                    \* carried a fresh call id, each post after its own pre
    usedIds,        \* call ids seen by on_pre_tool_use in that run
    pendingIds,     \* call ids whose pre has had no post yet
    seqRun,         \* tool calls in that run were strictly sequential, no ids
    openTool,       \* the tool whose pre awaits its post (None: none)
    preCount,       \* successful on_pre_tool_use calls since prompt-submit
    usageCount,     \* on_message_complete calls with usage since prompt-submit
    fmt,            \* one call of format_for_logfire_llm (logfire_adapter.py)
    cli,            \* one run of the command line (cli.py)
    run,            \* the runner around the agent call (runner.py)
    logfire         \* logfire_adapter._logfire: the vendor backend is configured

ctrl == << session_span, tool_spans, metrics, messages, tools_used >>
ghost == << idRun, usedIds, pendingIds, seqRun, openTool, preCount,
           usageCount >>
aux == << fmt, cli, run, logfire >>
vars == << session_span, tool_spans, metrics, messages, tools_used, spans,
           now, calls, last, idRun, usedIds, pendingIds, seqRun, openTool,
           preCount, usageCount, fmt, cli, run, logfire >>

\* self.metrics = {}
NoMetrics == [k \in {} |-> 0]

\* the metrics dict of a fresh session (counters)
ZeroMetrics == [input_tokens |-> 0, output_tokens |-> 0,
                tools_used |-> 0, turns |-> 0]

\* the metrics dict of a fresh session: the prompt and the zeroed counters
SessionMetrics(prompt) == [k \in {"prompt"} |-> prompt] @@ ZeroMetrics

\* tracer.start_span: a new span record
NewSpan(kind, tool, id, parent, attrs) ==
    [kind |-> kind, tool |-> tool, id |-> id, parent |-> parent, ends |-> 0,
     attrs |-> attrs, events |-> <<>>, name |-> <<>>,
     vals |-> NoMetrics, turns |-> <<>>, names |-> {}, texts |-> NoMetrics]

\* the name a span was started with
Named(s, name) == [s EXCEPT !.name = name]

\* a preview that is cut but carries no marker
PromptPreviewNoMarker(prompt) ==
    IF Len(prompt) > PreviewLen THEN SubSeq(prompt, 1, PreviewLen) ELSE prompt

\* prompt[:60] + "..." if len(prompt) > 60 else prompt
PromptPreview(prompt) ==
    IF Len(prompt) > PreviewLen
    THEN SubSeq(prompt, 1, PreviewLen) \o << ".", ".", "." >>
    ELSE prompt

\* f"<robot> {prompt_preview}"
SpanTitle(prompt) == << "robot", " " >> \o PromptPreview(prompt)

\* f"<wrench> {tool_name}"
ToolSpanName(tool_name) == << "wrench", " " >> \o tool_name

SetAttrs(s, as) == [s EXCEPT !.attrs = @ \cup as]

\* set_attribute(name, n) for a number n: the name and its latest value
SetVal(s, a, n) ==
    [s EXCEPT !.attrs = @ \cup { a },
              !.vals = [k \in { a } |-> n] @@ @]
AddEvent(s, e) == [s EXCEPT !.events = Append(@, e)]
AddEvents(s, es) == [s EXCEPT !.events = @ \o es]

\* add_event(e, {...: text}): the event and the text it carries
AddTextEvent(s, e, text) ==
    [s EXCEPT !.events = Append(@, e),
              !.texts = [k \in { e } |-> text] @@ @]
EndSpan(s) == [s EXCEPT !.ends = @ + 1]

Call(op, raised, tool, id, span, key) ==
    [op |-> op, raised |-> raised, tool |-> tool, id |-> id,
     span |-> span, key |-> key]

\* nothing of the formatter, the command line or the runner is in progress
Idle == [pc |-> "idle"]

\* TelemetryHooks.__init__
HooksInit ==
    /\ session_span = 0
    /\ tool_spans = <<>>
    /\ metrics = NoMetrics
    /\ messages = <<>>
    /\ tools_used = <<>>
    /\ spans = <<>>
    /\ now = 0
    /\ calls = 0
    /\ last = Call("init", FALSE, None, None, 0, None)
    /\ idRun = TRUE
    /\ usedIds = {}
    /\ pendingIds = {}
    /\ seqRun = TRUE
    /\ openTool = None
    /\ preCount = 0
    /\ usageCount = 0

Init ==
    /\ HooksInit
    /\ logfire = FALSE
    /\ fmt = Idle
    /\ cli = Idle
    /\ run = Idle

\* ------------------------------------------------- on_user_prompt_submit
PromptSubmit(prompt) ==
    /\ calls' = calls + 1
    /\ metrics' = SessionMetrics(prompt)
    /\ spans' = Append(spans,
                  AddEvent(Named(NewSpan("session", None, None, 0,
                                         {"prompt", "model", "session_id"}),
                                 SpanTitle(prompt)),
                           "User prompt submitted"))
    /\ session_span' = Len(spans) + 1
    /\ messages' = Append(messages, "user")
    /\ UNCHANGED << tool_spans, tools_used, now >>
    /\ last' = Call("prompt", FALSE, None, None, Len(spans) + 1, None)
    /\ preCount' = 0
    /\ usageCount' = 0
    /\ IF tool_spans = <<>>
       THEN /\ idRun' = TRUE
            /\ seqRun' = TRUE
            /\ usedIds' = {}
            /\ pendingIds' = {}
            /\ openTool' = None
       ELSE UNCHANGED << idRun, seqRun, usedIds, pendingIds, openTool >>

on_user_prompt_submit ==
    /\ calls < MaxCalls
    /\ \E prompt \in Prompts : PromptSubmit(prompt)
    /\ UNCHANGED aux

\* ------------------------------------------------------- on_pre_tool_use
\* the tool span as on_pre_tool_use leaves it: "tool.name", then, for a
\* non-empty tool_input, the string parameters and the "Tool input" event
PreToolSpan(tool_name, tool_use_id, tool_input) ==
    LET s == Named(NewSpan("tool", tool_name, tool_use_id, session_span,
                           {"tool.name"}),
                   ToolSpanName(tool_name))
    IN  IF tool_input # <<>>
        THEN AddTextEvent(SetAttrs(s, {"tool.input"}), "Tool input",
                          InputEvent(tool_input))
        ELSE s

\* the usage list extended before the session check raises
PreToolUseRaisesLate(tool_name, tool_use_id) ==
    /\ session_span = 0
    /\ tools_used' = Append(tools_used, tool_name)
    /\ last' = Call("pre", TRUE, None, None, 0, None)
    /\ UNCHANGED << session_span, tool_spans, metrics, messages, spans, now, ghost >>

\* if not self.session_span: raise RuntimeError
PreToolUseRaises(tool_name, tool_use_id) ==
    /\ session_span = 0
    /\ last' = Call("pre", TRUE, None, None, 0, None)
    /\ UNCHANGED << ctrl, spans, now, ghost >>

PreToolUseOk(tool_name, tool_use_id, tool_input, t) ==
    LET sid == Len(spans) + 1
        tool_id == ToolId(tool_name, tool_use_id, t)
        withTool == Append(spans,
                           PreToolSpan(tool_name, tool_use_id, tool_input))
    IN  /\ session_span # 0
        /\ now' = t
        /\ tool_spans' = DictSet(tool_spans, tool_id, sid)
        /\ tools_used' = Append(tools_used, tool_name)
        /\ metrics' = [metrics EXCEPT !["tools_used"] = @ + 1]
        /\ spans' = [withTool EXCEPT ![session_span] = AddEvent(@, "Tool started")]
        /\ UNCHANGED << session_span, messages >>
        /\ last' = Call("pre", FALSE, tool_name, tool_use_id, sid, tool_id)
                      @@ [input |-> tool_input]
        /\ idRun' = (idRun /\ tool_use_id # None /\ tool_use_id \notin usedIds)
        /\ usedIds' = IF idRun' THEN usedIds \cup {tool_use_id} ELSE {}
        /\ pendingIds' = IF idRun' THEN pendingIds \cup {tool_use_id} ELSE {}
        /\ seqRun' = (seqRun /\ tool_use_id = None /\ openTool = None)
        /\ openTool' = IF seqRun' THEN tool_name ELSE None
        /\ preCount' = preCount + 1
        /\ UNCHANGED usageCount

\* time.time() is read only when no call id came with the event
PreToolUse(inputs) ==
    /\ calls' = calls + 1
    /\ \E tool_name \in ToolNames, tool_use_id \in CallIds :
          \/ PreToolUseRaises(tool_name, tool_use_id)
          \/ \E tool_input \in inputs,
                d \in (IF tool_use_id = None THEN Ticks ELSE {0}) :
                PreToolUseOk(tool_name, tool_use_id, tool_input, now + d)

on_pre_tool_use ==
    /\ calls < MaxCalls
    /\ PreToolUse(ToolInputs)
    /\ UNCHANGED aux

\* ------------------------------------------------------ on_post_tool_use
\* a fallback that takes the most recent entry whatever its key
NameMatchAny(d, tool_name, tool_use_id) == Len(d)

\* the name-matching fallback: the last inserted entry, in insertion order,
\* whose key starts with f"{tool_name}_" or equals tool_use_id (0: none)
NameMatch(d, tool_name, tool_use_id) ==
    LET hits == { i \in 1..Len(d) :
                    \/ StartsWith(d[i].key, tool_name \o << "_" >>)
                    \/ d[i].key = tool_use_id }
    IN  IF hits = {} THEN 0
        ELSE CHOOSE i \in hits : \A j \in hits : j <= i

\* a lookup that ignores the call id and ends the most recent entry
FindSpanNewest(d, tool_name, tool_use_id) == Len(d)

\* index in tool_spans of the span the post-tool hook resolves to (0: none)
FindSpan(d, tool_name, tool_use_id) ==
    IF tool_use_id # None /\ tool_use_id \in Keys(d)
    THEN IndexOf(d, tool_use_id)
    ELSE NameMatch(d, tool_name, tool_use_id)

\* isinstance(tool_response, dict) and "error" in tool_response
HasErrorKey(resp) == resp \in { "error", "errorAndIsError" }

\* the flag set for any dict that has the "isError" key, whatever its value
IsErrorKeyPresent(resp) == resp \in { "isError", "isErrorFalse", "errorAndIsError" }

\* isinstance(tool_response, dict) and "isError" in it and it is truthy
IsErrorTrue(resp) == resp \in { "isError", "errorAndIsError" }

\* what on_post_tool_use does to the span it found, "end()" included
PostToolSpan(s, resp) ==
    LET attrs == (IF resp # "none" THEN {"tool.response"} ELSE {})
                 \cup (IF HasErrorKey(resp) THEN {"tool.error"} ELSE {})
                 \cup (IF IsErrorTrue(resp) THEN {"tool.is_error"} ELSE {})
        withAttrs == SetAttrs(s, attrs)
    IN  EndSpan(IF resp # "none"
                THEN AddTextEvent(withAttrs, "Tool response",
                                  ResponseEvent(ResponseStr(resp)))
                ELSE withAttrs)

\* the event appended twice
SessionEventTwice(sp, e) ==
    IF session_span # 0
    THEN [sp EXCEPT ![session_span] = AddEvent(AddEvent(@, e), e)]
    ELSE sp

\* if self.session_span: add_event("Tool completed: ...")
SessionEvent(sp, e) ==
    IF session_span # 0
    THEN [sp EXCEPT ![session_span] = AddEvent(@, e)]
    ELSE sp

PostToolUse(tool_name, tool_use_id, resp) ==
    LET i == FindSpan(tool_spans, tool_name, tool_use_id)
        sid == IF i = 0 THEN 0 ELSE tool_spans[i].span
        key == IF i = 0 THEN None ELSE tool_spans[i].key
        ended == IF i = 0 THEN spans
                 ELSE [spans EXCEPT ![sid] = PostToolSpan(@, resp)]
    IN  /\ tool_spans' = IF i = 0 THEN tool_spans ELSE DictDelAt(tool_spans, i)
        /\ spans' = SessionEvent(ended, "Tool completed")
        /\ UNCHANGED << session_span, metrics, messages, tools_used, now, preCount,
                       usageCount >>
        /\ last' = Call("post", FALSE, tool_name, tool_use_id, sid, key)
                      @@ [resp |-> IF i = 0 THEN "none" ELSE resp]
        /\ idRun' = (idRun /\ tool_use_id # None /\ tool_use_id \in pendingIds)
        /\ usedIds' = IF idRun' THEN usedIds ELSE {}
        /\ pendingIds' = IF idRun' THEN pendingIds \ {tool_use_id} ELSE {}
        /\ seqRun' = (seqRun /\ tool_use_id = None /\ openTool = tool_name)
        /\ openTool' = None

PostToolUseAny(resps) ==
    /\ calls' = calls + 1
    /\ \E tool_name \in ToolNames, tool_use_id \in CallIds, resp \in resps :
          PostToolUse(tool_name, tool_use_id, resp)

on_post_tool_use ==
    /\ calls < MaxCalls
    /\ PostToolUseAny(Responses)
    /\ UNCHANGED aux

\* --------------------------------------------------- on_message_complete
\* self.metrics["input_tokens"] += ... on a dict without that key: KeyError,
\* raised before anything is written
MessageCompleteRaises(usage) ==
    /\ usage # None
    /\ "input_tokens" \notin DOMAIN metrics
    /\ last' = Call("message", TRUE, None, None, 0, None)
    /\ UNCHANGED << ctrl, spans, now, ghost >>

\* counters assigned from the turn's usage instead of added to
UsageMetricsAssign(m, din, dout) ==
    [m EXCEPT !["input_tokens"] = din,
              !["output_tokens"] = dout,
              !["turns"] = @ + 1]

\* counters added to without counting the turn
UsageMetricsNoTurn(m, din, dout) ==
    [m EXCEPT !["input_tokens"] = @ + din,
              !["output_tokens"] = @ + dout]

\* the usage block: counters, then (with a session span) attributes and event
UsageMetrics(m, din, dout) ==
    [m EXCEPT !["input_tokens"] = @ + din,
              !["output_tokens"] = @ + dout,
              !["turns"] = @ + 1]

\* a turn event that carries the cumulative counters
TurnEventCumulative(s, m, din, dout) ==
    [AddEvent(s, "Turn completed") EXCEPT
        !.turns = Append(@, [turn |-> m["turns"],
                             input_tokens |-> m["input_tokens"],
                             output_tokens |-> m["output_tokens"]])]

\* add_event("Turn completed", {turn, input_tokens, output_tokens}): the
\* turn number from the counters m, the tokens of this message alone
TurnEvent(s, m, din, dout) ==
    [AddEvent(s, "Turn completed") EXCEPT
        !.turns = Append(@, [turn |-> m["turns"], input_tokens |-> din,
                             output_tokens |-> dout])]

\* lines 217-234: the cumulative counters m as attributes, then the event
UsageSpans(sp, m, din, dout) ==
    IF session_span # 0
    THEN [sp EXCEPT ![session_span] =
            TurnEvent(
                SetVal(SetVal(SetVal(@, "gen_ai.usage.input_tokens",
                                     m["input_tokens"]),
                              "gen_ai.usage.output_tokens", m["output_tokens"]),
                       "turns", m["turns"]),
                m, din, dout)]
    ELSE sp

MessageCompleteOk(usage, hasContent) ==
    /\ usage # None => "input_tokens" \in DOMAIN metrics
    /\ metrics' = IF usage # None THEN UsageMetrics(metrics, usage[1], usage[2])
                  ELSE metrics
    /\ spans' = IF usage # None
                THEN UsageSpans(spans, metrics', usage[1], usage[2])
                ELSE spans
    /\ messages' = IF hasContent THEN Append(messages, "assistant") ELSE messages
    /\ last' = Call("message", FALSE, None, None, 0, None)
    /\ usageCount' = IF usage # None THEN usageCount + 1 ELSE usageCount
    /\ UNCHANGED << session_span, tool_spans, tools_used, now, idRun, usedIds,
                    pendingIds, seqRun, openTool, preCount >>

MessageComplete ==
    /\ calls' = calls + 1
    /\ \E usage \in Usages, hasContent \in BOOLEAN :
          \/ MessageCompleteRaises(usage)
          \/ MessageCompleteOk(usage, hasContent)

on_message_complete ==
    /\ calls < MaxCalls
    /\ MessageComplete
    /\ UNCHANGED aux

\* -------------------------------------------------------- on_pre_compact
on_pre_compact ==
    /\ calls < MaxCalls
    /\ calls' = calls + 1
    /\ spans' = SessionEvent(spans, "Context compaction")
    /\ last' = Call("compact", FALSE, None, None, 0, None)
    /\ UNCHANGED << ctrl, now, ghost >>
    /\ UNCHANGED aux

\* ------------------------------------------------------ complete_session
\* if not self.session_span: raise RuntimeError
CompleteRaises ==
    /\ session_span = 0
    /\ last' = Call("complete", TRUE, None, None, 0, None)
    /\ UNCHANGED << ctrl, spans, now, ghost >>

\* the completion event without the attributes and without end()
FinalSpanNotEnded(s) == AddEvent(s, "Completed")

\* final attributes, completion event, end()
FinalSpan(s) ==
    LET names == IF tools_used # <<>> THEN {"tool_names"} ELSE {}
        attrs == {"gen_ai.request.model", "gen_ai.response.model", "tools_used"}
        named == IF tools_used # <<>>
                 THEN [s EXCEPT !.names =
                          { tools_used[i] : i \in 1..Len(tools_used) }]
                 ELSE s
    IN  EndSpan(AddEvent(SetVal(SetAttrs(named, attrs \cup names),
                                "tools_used", metrics["tools_used"]),
                         "Completed"))

\* force_flush() raises: the exception leaves complete_session before the
\* summary and the reset
CompleteFlushFails ==
    /\ TRUE \in FlushRaises
    /\ session_span # 0
    /\ spans' = [spans EXCEPT ![session_span] = FinalSpan(@)]
    /\ last' = Call("complete", TRUE, None, None, session_span, None)
    /\ UNCHANGED << ctrl, now, ghost >>

\* a reset that forgets to clear session_span
ResetKeepsSpan ==
    /\ UNCHANGED session_span
    /\ tool_spans' = <<>>
    /\ metrics' = NoMetrics
    /\ messages' = <<>>
    /\ tools_used' = <<>>

\* the reset at the end of complete_session
Reset ==
    /\ session_span' = 0
    /\ tool_spans' = <<>>
    /\ metrics' = NoMetrics
    /\ messages' = <<>>
    /\ tools_used' = <<>>

CompleteOk ==
    /\ FALSE \in FlushRaises
    /\ session_span # 0
    /\ spans' = [spans EXCEPT ![session_span] = FinalSpan(@)]
    /\ Reset
    /\ last' = Call("complete", FALSE, None, None, session_span, None)
    /\ idRun' = TRUE
    /\ seqRun' = TRUE
    /\ usedIds' = {}
    /\ pendingIds' = {}
    /\ openTool' = None
    /\ preCount' = 0
    /\ usageCount' = 0
    /\ UNCHANGED now

CompleteSession ==
    /\ calls' = calls + 1
    /\ \/ CompleteRaises
       \/ CompleteFlushFails
       \/ CompleteOk

complete_session ==
    /\ calls < MaxCalls
    /\ CompleteSession
    /\ UNCHANGED aux

\* ------------------------------------------------------------------ system
Next ==
    \/ on_user_prompt_submit
    \/ on_pre_tool_use
    \/ on_post_tool_use
    \/ on_message_complete
    \/ on_pre_compact
    \/ complete_session

Spec == Init /\ [][Next]_vars

\* The same controller, fewer calls, every payload shape: prompts around the
\* preview length, empty and non-empty tool input, every tool response.
PayloadPromptSubmit ==
    /\ calls < MaxPayloadCalls
    /\ \E prompt \in LongPrompts : PromptSubmit(prompt)
    /\ UNCHANGED aux

PayloadPreToolUse ==
    /\ calls < MaxPayloadCalls
    /\ PreToolUse(AllToolInputs)
    /\ UNCHANGED aux

PayloadPostToolUse ==
    /\ calls < MaxPayloadCalls
    /\ PostToolUseAny(AllResponses)
    /\ UNCHANGED aux

PayloadMessageComplete == calls < MaxPayloadCalls /\ on_message_complete
PayloadPreCompact == calls < MaxPayloadCalls /\ on_pre_compact
PayloadCompleteSession == calls < MaxPayloadCalls /\ complete_session

NextPayload ==
    \/ PayloadPromptSubmit
    \/ PayloadPreToolUse
    \/ PayloadPostToolUse
    \/ PayloadMessageComplete
    \/ PayloadPreCompact
    \/ PayloadCompleteSession

\* The same controller with tool inputs and responses whose str() is just
\* below, at and just above the caps of the payload events.
CapsPromptSubmit ==
    /\ calls < MaxCapCalls
    /\ \E prompt \in Prompts : PromptSubmit(prompt)
    /\ UNCHANGED aux

CapsPreToolUse ==
    /\ calls < MaxCapCalls
    /\ PreToolUse(CapToolInputs)
    /\ UNCHANGED aux

CapsPostToolUse ==
    /\ calls < MaxCapCalls
    /\ PostToolUseAny(CapResponses)
    /\ UNCHANGED aux

NextCaps ==
    \/ CapsPromptSubmit
    \/ CapsPreToolUse
    \/ CapsPostToolUse

SpecCaps == Init /\ [][NextCaps]_vars

\* configure_logfire may or may not have run before the session
InitPayload ==
    /\ HooksInit
    /\ logfire \in BOOLEAN
    /\ fmt = Idle
    /\ cli = Idle
    /\ run = Idle

SpecPayload == InitPayload /\ [][NextPayload]_vars

\* ------------------------------------ format_for_logfire_llm (logfire_adapter)
\* Everything of the controller: left alone by the other programs.
hooks == << session_span, tool_spans, metrics, messages, tools_used, spans,
            now, calls, last, idRun, usedIds, pendingIds, seqRun, openTool,
            preCount, usageCount, logfire >>

\* input_tokens / output_tokens: None, or << n >> for the count n
TokenCounts == { None, << 0 >>, << 1 >>, << 2 >> }

\* response: None, "" or a text
FmtResponses == { None, << "o", "k" >> }

\* tools_used: None, [] or a list of names
FmtTools == { None, << << "R" >>, << "R" >> >> }

\* cost_usd: None or a number (0.0 is a number)
Costs == { None, << 0 >> }

\* Python truth of an optional count: None and 0 are falsy
Truthy(t) == t # None /\ t[1] # 0

\* a usage dict without the total
UsageNoTotal(input_tokens, output_tokens) ==
    [k \in { f \in { "input_tokens", "output_tokens" } :
                IF f = "input_tokens" THEN Truthy(input_tokens)
                ELSE Truthy(output_tokens) } |->
        IF k = "input_tokens" THEN input_tokens[1] ELSE output_tokens[1]]

\* response_data["usage"], lines 119-127
Usage(input_tokens, output_tokens) ==
    [k \in { f \in { "input_tokens", "output_tokens", "total_tokens" } :
                CASE f = "input_tokens" -> Truthy(input_tokens)
                  [] f = "output_tokens" -> Truthy(output_tokens)
                  [] OTHER -> Truthy(input_tokens) /\ Truthy(output_tokens) } |->
        CASE k = "input_tokens" -> input_tokens[1]
          [] k = "output_tokens" -> output_tokens[1]
          [] OTHER -> input_tokens[1] + output_tokens[1]]

\* response_data, lines 110-127: the keys present and, for "usage", its dict
ResponseData(response, input_tokens, output_tokens) ==
    [keys |-> { "message" } \cup
              (IF Truthy(input_tokens) \/ Truthy(output_tokens)
               THEN { "usage" } ELSE {}),
     message |-> [role |-> "assistant", content |-> response],
     usage |-> IF Truthy(input_tokens) \/ Truthy(output_tokens)
               THEN Usage(input_tokens, output_tokens)
               ELSE NoMetrics]

\* the set_attribute calls of the function, in the order of the code
FmtSteps == << "request_data", "llm.request.model", "response_data",
               "span.kind", "logfire.span_type", "llm.usage.input_tokens",
               "llm.usage.output_tokens", "llm.usage.cost_usd",
               "llm.tools.count", "llm.tools.names" >>

\* the condition under which the code reaches the i-th set_attribute
Applies(f, i) ==
    CASE FmtSteps[i] = "response_data" -> f.response # None
      [] FmtSteps[i] = "llm.usage.input_tokens" -> Truthy(f.input_tokens)
      [] FmtSteps[i] = "llm.usage.output_tokens" -> Truthy(f.output_tokens)
      [] FmtSteps[i] = "llm.usage.cost_usd" -> f.cost_usd # None
      [] FmtSteps[i] \in { "llm.tools.count", "llm.tools.names" } ->
            f.tools_used # None
      [] OTHER -> TRUE

\* a call: the arguments, the attributes of the span so far, the step reached
FmtCall(response, tools, input_tokens, output_tokens, cost_usd) ==
    [pc |-> "run", step |-> 1, response |-> response, tools_used |-> tools,
     input_tokens |-> input_tokens, output_tokens |-> output_tokens,
     cost_usd |-> cost_usd, attrs |-> {}, response_data |-> None,
     failed |-> FALSE, raised |-> FALSE]

\* after the i-th step: the next one, or the return
FmtAdvance(f) ==
    IF f.step = Len(FmtSteps) THEN [f EXCEPT !.pc = "done"]
    ELSE [f EXCEPT !.step = @ + 1]

\* a handler that undoes the attributes and lets the exception out
CaughtRollback(f) ==
    [f EXCEPT !.pc = "done", !.failed = TRUE, !.raised = TRUE, !.attrs = {}]

\* except Exception as e: logger.warning(...)
Caught(f) == [f EXCEPT !.pc = "done", !.failed = TRUE]

\* span.set_attribute(name, value) returns
FmtSet ==
    /\ fmt.pc = "run"
    /\ Applies(fmt, fmt.step)
    /\ fmt' = FmtAdvance(
         IF FmtSteps[fmt.step] = "response_data"
         THEN [fmt EXCEPT !.attrs = @ \cup { "response_data" },
                          !.response_data =
                              ResponseData(fmt.response, fmt.input_tokens,
                                           fmt.output_tokens)]
         ELSE [fmt EXCEPT !.attrs = @ \cup { FmtSteps[fmt.step] }])
    /\ UNCHANGED << hooks, cli, run >>

\* the condition of the step is false: the code goes on
FmtSkip ==
    /\ fmt.pc = "run"
    /\ ~Applies(fmt, fmt.step)
    /\ fmt' = FmtAdvance(fmt)
    /\ UNCHANGED << hooks, cli, run >>

\* json.dumps or set_attribute raises an Exception at this step
FmtFail ==
    /\ fmt.pc = "run"
    /\ Applies(fmt, fmt.step)
    /\ fmt' = Caught(fmt)
    /\ UNCHANGED << hooks, cli, run >>

InitFmt ==
    /\ HooksInit
    /\ logfire = FALSE
    /\ fmt \in { FmtCall(r, t, i, o, c) :
                    r \in FmtResponses, t \in FmtTools, i \in TokenCounts,
                    o \in TokenCounts, c \in Costs }
    /\ cli = Idle
    /\ run = Idle

NextFmt ==
    \/ FmtSet
    \/ FmtSkip
    \/ FmtFail

SpecFmt == InitFmt /\ [][NextFmt]_vars

\* ------------------------------------------------------ the runner (runner.py)
\* Hook calls the runtime delivers during the agent calls of one runner.
MaxRunCalls == 4

\* Prompts read by run_agent_interactive before it is left.
MaxPrompts == 2

\* run_agent_with_telemetry / run_agent_interactive
RunModes == { "single", "interactive" }

\* how await agent.submit_prompt(...) is left
ExitKinds == { "return", "exception", "interrupt" }

\* a try without finally: the cleanup only after a normal return
OnlyOnReturn(kind) == kind = "return"

\* try: ... finally: hooks.complete_session()  -- the finally block runs
\* however the try block is left
Finally(kind) == TRUE

Runner(mode) ==
    [pc |-> "start", mode |-> mode, prompts |-> 0, prompted |-> FALSE,
     exit |-> "none", completes |-> 0, session |-> 0]

\* hooks = TelemetryHooks(): a new controller; the tracer keeps its spans
RunNewHooks ==
    /\ run.pc = "start"
    /\ session_span' = 0
    /\ tool_spans' = <<>>
    /\ metrics' = NoMetrics
    /\ messages' = <<>>
    /\ tools_used' = <<>>
    /\ last' = Call("init", FALSE, None, None, 0, None)
    /\ idRun' = TRUE
    /\ usedIds' = {}
    /\ pendingIds' = {}
    /\ seqRun' = TRUE
    /\ openTool' = None
    /\ preCount' = 0
    /\ usageCount' = 0
    /\ run' = [run EXCEPT !.pc = "agent", !.prompts = @ + 1,
                          !.prompted = FALSE, !.exit = "none",
                          !.completes = 0, !.session = 0]
    /\ UNCHANGED << spans, now, calls, fmt, cli, logfire >>

\* await agent.submit_prompt(prompt): the runtime first delivers the
\* UserPromptSubmit hook, once
RunPromptHook ==
    /\ run.pc = "agent"
    /\ ~run.prompted
    /\ calls < MaxRunCalls
    /\ \E prompt \in Prompts : PromptSubmit(prompt)
    /\ run' = [run EXCEPT !.prompted = TRUE, !.session = Len(spans) + 1]
    /\ UNCHANGED << fmt, cli, logfire >>

\* ... then the PreToolUse, PostToolUse and MessageComplete hooks
RunPreToolHook ==
    /\ run.pc = "agent"
    /\ run.prompted
    /\ calls < MaxRunCalls
    /\ PreToolUse(ToolInputs)
    /\ UNCHANGED aux

RunPostToolHook ==
    /\ run.pc = "agent"
    /\ run.prompted
    /\ calls < MaxRunCalls
    /\ PostToolUseAny(Responses)
    /\ UNCHANGED aux

RunMessageHook ==
    /\ run.pc = "agent"
    /\ run.prompted
    /\ calls < MaxRunCalls
    /\ MessageComplete
    /\ UNCHANGED aux

\* the agent call is left: it returns, raises, or is interrupted
RunAgentExit ==
    /\ run.pc = "agent"
    /\ \E kind \in ExitKinds :
          /\ kind = "return" => run.prompted
          /\ run' = [run EXCEPT !.exit = kind,
                                !.pc = IF Finally(kind) THEN "finally"
                                       ELSE "after"]
    /\ UNCHANGED << hooks, fmt, cli >>

\* finally: hooks.complete_session(); an exception raised by complete_session
\* replaces the exception in flight: it is the one that leaves the try
\* statement, whatever way the try block was left
RunFinally ==
    /\ run.pc = "finally"
    /\ CompleteSession
    /\ run' = [run EXCEPT !.pc = "after", !.completes = @ + 1,
                          !.exit = IF last'.raised THEN "cleanup_error" ELSE @]
    /\ UNCHANGED << fmt, cli, logfire >>

\* run_agent_with_telemetry is left; run_agent_interactive goes on with the
\* next prompt after a return or a KeyboardInterrupt and is left otherwise
RunLeave ==
    /\ run.pc = "after"
    /\ run' = [run EXCEPT !.pc =
                  IF /\ run.mode = "interactive"
                     /\ run.exit \in { "return", "interrupt" }
                     /\ run.prompts < MaxPrompts
                  THEN "start" ELSE "exited"]
    /\ UNCHANGED << hooks, fmt, cli >>

InitRunner ==
    /\ HooksInit
    /\ logfire = FALSE
    /\ fmt = Idle
    /\ cli = Idle
    /\ run \in { Runner(mode) : mode \in RunModes }

NextRunner ==
    \/ RunNewHooks
    \/ RunPromptHook
    \/ RunPreToolHook
    \/ RunPostToolHook
    \/ RunMessageHook
    \/ RunAgentExit
    \/ RunFinally
    \/ RunLeave

SpecRunner == InitRunner /\ [][NextRunner]_vars

\* ------------------------------------------------ the command line (cli.py)
\* Arguments are sequences of symbols: "-", "=" and words.
\* Length of sys.argv[1:].
MaxArgs == 3

\* the telemetry options of parse_args
TelemetryOptions == { "logfire-token", "otel-endpoint", "otel-headers" }

\* "--name" and "--name=value"
Opt(name) == << "-", "-", name >>
OptEq(name, value) == << "-", "-", name, "=" >> \o value

\* the arguments a command line is made of
CliArgs ==
    { Opt("logfire-token"), OptEq("logfire-token", << "tok" >>),
      Opt("otel-endpoint"), OptEq("otel-endpoint", << "url" >>),
      Opt("otel-headers"), OptEq("otel-headers", << "auth", "=", "b" >>),
      Opt("claudia-debug"),
      Opt("model"), OptEq("model", << "opus" >>), << "-", "m" >>,
      << "do" >>, << "auth", "=", "b" >>,
      Opt("help"), << "version" >> }

RECURSIVE ArgLists(_)
\* the argument lists of at most n arguments
ArgLists(n) ==
    IF n = 0 THEN { <<>> }
    ELSE ArgLists(n - 1) \cup
         { Append(l, a) : l \in { x \in ArgLists(n - 1) : Len(x) = n - 1 },
                          a \in CliArgs }

\* the arguments that make parse_args exit at once (lines 50-60)
SpecialCommands ==
    { << "version" >>, Opt("version"), << "-", "v" >>,
      << "config" >>, Opt("config"), Opt("help"), << "-", "h" >> }

\* arg.startswith("-")
IsFlag(arg) == StartsWith(arg, << "-" >>)

\* "=" in arg
HasEq(arg) == \E i \in 1..Len(arg) : arg[i] = "="

\* the place of the last "="
LastEq(arg) ==
    CHOOSE i \in 1..Len(arg) :
        arg[i] = "=" /\ \A j \in (i + 1)..Len(arg) : arg[j] # "="

\* arg.split("=", 1): the place of the first "="
FirstEq(arg) ==
    CHOOSE i \in 1..Len(arg) :
        arg[i] = "=" /\ \A j \in 1..(i - 1) : arg[j] # "="

FlagPart(arg) == SubSeq(arg, 1, FirstEq(arg) - 1)
ValuePart(arg) == SubSeq(arg, FirstEq(arg) + 1, Len(arg))

RECURSIVE LStripDash(_)
\* s.lstrip("-")
LStripDash(s) ==
    IF s # <<>> /\ Head(s) = "-" THEN LStripDash(Tail(s)) ELSE s

\* {} : a dict is a function from its keys
EmptyDict == [k \in {} |-> None]

\* d[k] = v
DictPut(d, k, v) == (k :> v) @@ d

RECURSIVE ParseFlagsFrom(_, _, _)
\* the loop of _parse_flags from index i with the dict d
ParseFlagsFrom(args, i, d) ==
    IF i > Len(args) THEN d
    ELSE LET arg == args[i]
         IN  IF ~IsFlag(arg) THEN ParseFlagsFrom(args, i + 1, d)
             ELSE IF HasEq(arg)
             THEN ParseFlagsFrom(args, i + 1,
                      DictPut(d, LStripDash(FlagPart(arg)), ValuePart(arg)))
             ELSE IF i + 1 <= Len(args) /\ ~IsFlag(args[i + 1])
             THEN ParseFlagsFrom(args, i + 2,
                      DictPut(d, LStripDash(arg), args[i + 1]))
             ELSE ParseFlagsFrom(args, i + 1,
                      DictPut(d, LStripDash(arg), None))

\* _parse_flags(args)
parse_flags(args) == ParseFlagsFrom(args, 1, EmptyDict)

\* the locals of parse_args at line 67
NoOptions ==
    [logfire_token |-> None, otel_endpoint |-> None, otel_headers |-> None,
     claudia_debug |-> FALSE, extra_args_list |-> <<>>]

RECURSIVE Extract(_, _, _)
\* the loop of lines 69-92 from index i
Extract(argv, i, st) ==
    IF i > Len(argv) THEN st
    ELSE LET arg == argv[i]
             val == IF i + 1 <= Len(argv) THEN argv[i + 1] ELSE None
         IN  CASE arg = Opt("logfire-token") ->
                    Extract(argv, i + 2, [st EXCEPT !.logfire_token = val])
               [] arg = Opt("otel-endpoint") ->
                    Extract(argv, i + 2, [st EXCEPT !.otel_endpoint = val])
               [] arg = Opt("otel-headers") ->
                    Extract(argv, i + 2, [st EXCEPT !.otel_headers = val])
               [] arg = Opt("claudia-debug") ->
                    Extract(argv, i + 1, [st EXCEPT !.claudia_debug = TRUE])
               [] OTHER ->
                    Extract(argv, i + 1,
                            [st EXCEPT !.extra_args_list = Append(@, arg)])

\* os.environ before the call: the four variables unset
NoEnviron ==
    [LOGFIRE_TOKEN |-> None, OTEL_EXPORTER_OTLP_ENDPOINT |-> None,
     OTEL_EXPORTER_OTLP_HEADERS |-> None, CLAUDE_TELEMETRY_DEBUG |-> None]

\* lines 95-103: a variable is set only from a truthy value
SetEnviron(env, st) ==
    [LOGFIRE_TOKEN |->
        IF st.logfire_token # None THEN st.logfire_token
        ELSE env.LOGFIRE_TOKEN,
     OTEL_EXPORTER_OTLP_ENDPOINT |->
        IF st.otel_endpoint # None THEN st.otel_endpoint
        ELSE env.OTEL_EXPORTER_OTLP_ENDPOINT,
     OTEL_EXPORTER_OTLP_HEADERS |->
        IF st.otel_headers # None THEN st.otel_headers
        ELSE env.OTEL_EXPORTER_OTLP_HEADERS,
     CLAUDE_TELEMETRY_DEBUG |->
        IF st.claudia_debug THEN << "1" >> ELSE env.CLAUDE_TELEMETRY_DEBUG]

RECURSIVE FindPromptAnyNonFlag(_, _)
\* a search that takes the last non-flag argument, whatever precedes it
FindPromptAnyNonFlag(l, i) ==
    IF i < 1 THEN 0
    ELSE IF IsFlag(l[i]) THEN FindPromptAnyNonFlag(l, i - 1)
    ELSE i

RECURSIVE FindPrompt(_, _)
\* the backward loop of lines 110-128 from index i; 0 is prompt_idx = -1
FindPrompt(l, i) ==
    IF i < 1 THEN 0
    ELSE IF IsFlag(l[i]) THEN FindPrompt(l, i - 1)
    ELSE IF i > 1 /\ IsFlag(l[i - 1]) /\ ~HasEq(l[i - 1])
    THEN FindPrompt(l, i - 1)
    ELSE i

\* extra_args_list.pop(prompt_idx)
Pop(l, i) == IF i = 0 THEN l ELSE DictDelAt(l, i)

\* what await of the agent run does to main: it returns or raises
RunOutcomes == { "return", "KeyboardInterrupt", "RuntimeError", "ValueError" }

\* except Exception: KeyboardInterrupt derives from BaseException only
IsException(outcome) == outcome \in { "RuntimeError", "ValueError" }

\* handle_agent_error(e): the code of the typer.Exit it raises
handle_agent_error(e) == IF e = "KeyboardInterrupt" THEN 0 ELSE 1

\* the exit status of the interpreter for an uncaught KeyboardInterrupt
InterruptStatus == 130

\* the exit status of main() for an outcome of the run
ExitStatus(outcome) ==
    IF outcome = "return" THEN 0
    ELSE IF IsException(outcome) THEN handle_agent_error(outcome)
    ELSE InterruptStatus

\* one use of the module: main() or _parse_flags(argv), with sys.argv[1:]
CliStart(call, argv) ==
    [pc |-> "start", call |-> call, argv |-> argv, prompt |-> None,
     prompt_idx |-> 0, extra_args_list |-> <<>>, extra_args |-> EmptyDict,
     environ |-> NoEnviron, claudia_debug |-> FALSE, outcome |-> "none",
     status |-> 0]

\* parse_args: a special command, sys.exit(0)
CliSpecial ==
    /\ cli.pc = "start"
    /\ cli.call = "main"
    /\ \E i \in 1..Len(cli.argv) : cli.argv[i] \in SpecialCommands
    /\ cli' = [cli EXCEPT !.pc = "exited", !.outcome = "special",
                          !.status = 0]
    /\ UNCHANGED << hooks, fmt, run >>

\* parse_args returns (prompt, extra_args, claudia_debug)
CliParseArgs ==
    /\ cli.pc = "start"
    /\ cli.call = "main"
    /\ \A i \in 1..Len(cli.argv) : cli.argv[i] \notin SpecialCommands
    /\ LET st == Extract(cli.argv, 1, NoOptions)
           idx == FindPrompt(st.extra_args_list, Len(st.extra_args_list))
       IN  cli' = [cli EXCEPT
                     !.pc = "parsed",
                     !.environ = SetEnviron(@, st),
                     !.claudia_debug = st.claudia_debug,
                     !.extra_args_list = st.extra_args_list,
                     !.prompt_idx = idx,
                     !.prompt = IF idx = 0 THEN None
                                ELSE st.extra_args_list[idx],
                     !.extra_args =
                         parse_flags(Pop(st.extra_args_list, idx))]
    /\ UNCHANGED << hooks, fmt, run >>

\* _parse_flags called on its own (tests/test_cli_parsing.py)
CliParseFlags ==
    /\ cli.pc = "start"
    /\ cli.call = "parse_flags"
    /\ cli' = [cli EXCEPT !.pc = "flags", !.extra_args = parse_flags(cli.argv)]
    /\ UNCHANGED << hooks, fmt, run >>

\* main after parse_args: the run and the way the process ends
CliRun ==
    /\ cli.pc = "parsed"
    /\ \E outcome \in RunOutcomes :
          cli' = [cli EXCEPT !.pc = "exited", !.outcome = outcome,
                             !.status = ExitStatus(outcome)]
    /\ UNCHANGED << hooks, fmt, run >>

InitCli ==
    /\ HooksInit
    /\ logfire = FALSE
    /\ fmt = Idle
    /\ run = Idle
    /\ cli \in { CliStart(call, argv) :
                    call \in { "main", "parse_flags" },
                    argv \in ArgLists(MaxArgs) }

NextCli ==
    \/ CliSpecial
    \/ CliParseArgs
    \/ CliParseFlags
    \/ CliRun

SpecCli == InitCli /\ [][NextCli]_vars

\* ------------------------------------------------------------------ claims
\* the step just taken was the delivery of one hook call of kind op
Step(op) == calls' = calls + 1 /\ last'.op = op

ToolSpanIds == { i \in DOMAIN spans : spans[i].kind = "tool" }

\* C1: while every tool call carries a fresh call id and each post follows
\* its own pre, a post ends exactly the span its pre opened under that id
\* (once, and no later span carries the id), and when no call is pending the
\* correlation table is empty.
C1_CallIdPairing ==
    /\ (idRun /\ last.op = "post") =>
          /\ last.span \in ToolSpanIds
          /\ last.key = last.id
          /\ spans[last.span].id = last.id
          /\ spans[last.span].ends = 1
          /\ \A j \in DOMAIN spans : j > last.span => spans[j].id # last.id
    /\ (idRun /\ pendingIds = {}) => tool_spans = <<>>

\* C1 witness: a post resolved by call id while another call is in flight
C1_Witness ==
    /\ idRun
    /\ last.op = "post"
    /\ last.span # 0
    /\ pendingIds # {}
    /\ Len(tool_spans) = 1

\* C2: complete_session with no session open raises and changes nothing; a
\* complete_session that returns leaves session_span None (so the next one
\* raises).
C2_CompleteWithoutSession ==
    [][ Step("complete") =>
          IF session_span = 0
          THEN last'.raised /\ UNCHANGED << ctrl, spans >>
          ELSE ~last'.raised => session_span' = 0 ]_vars

\* C2 witness: complete_session raised on a controller that had completed a
\* session before
C2_Witness ==
    /\ last.op = "complete"
    /\ last.raised
    /\ session_span = 0
    /\ \E i \in DOMAIN spans : spans[i].kind = "session" /\ spans[i].ends = 1

\* C3: every session span that was started and not ended is the
\* controller's current session_span (at most one session open).
C3_OneOpenSession ==
    \A i \in DOMAIN spans :
        (spans[i].kind = "session" /\ spans[i].ends = 0) => session_span = i

\* C4: while the same session stays open the token counters never decrease,
\* a step that lowers a counter is a prompt-submit, and prompt-submit leaves
\* both at zero.
C4_TokensMonotonic ==
    [][ /\ (session_span # 0 /\ session_span' = session_span) =>
              /\ metrics'.input_tokens >= metrics.input_tokens
              /\ metrics'.output_tokens >= metrics.output_tokens
        /\ ( /\ "input_tokens" \in DOMAIN metrics
             /\ "input_tokens" \in DOMAIN metrics'
             /\ \/ metrics'.input_tokens < metrics.input_tokens
                \/ metrics'.output_tokens < metrics.output_tokens ) =>
              Step("prompt")
        /\ Step("prompt") =>
              metrics'.input_tokens = 0 /\ metrics'.output_tokens = 0 ]_vars

\* C4 witness: two turns with usage have accumulated in one session
C4_Witness ==
    /\ session_span # 0
    /\ last.op = "message"
    /\ metrics.turns = 2
    /\ metrics.input_tokens + metrics.output_tokens >= 2

\* no key of the table is the call id, none starts with f"{tool_name}_"
NoOpenSpanFor(tool_name, tool_use_id) ==
    \A i \in 1..Len(tool_spans) :
        /\ tool_spans[i].key # tool_use_id
        /\ ~StartsWith(tool_spans[i].key, tool_name \o << "_" >>)

\* C5: a post-tool-use for which no open span is found returns normally,
\* ends no span, leaves the table, the metrics and every span's attributes
\* as they were.
C5_PostWithoutSpan ==
    [][ (Step("post") /\ NoOpenSpanFor(last'.tool, last'.id)) =>
          /\ ~last'.raised
          /\ last'.span = 0
          /\ UNCHANGED << session_span, tool_spans, metrics, messages, tools_used >>
          /\ Len(spans') = Len(spans)
          /\ \A i \in DOMAIN spans :
                /\ spans'[i].ends = spans[i].ends
                /\ spans'[i].attrs = spans[i].attrs ]_vars

\* C5 witness: a post found no span although the table holds an open one,
\* in an open session
C5_Witness ==
    /\ last.op = "post"
    /\ last.span = 0
    /\ session_span # 0
    /\ tool_spans # <<>>

\* C6: on_message_complete in IDLE returns normally and changes nothing.
C6_MessageCompleteIdle ==
    [][ (Step("message") /\ session_span = 0) =>
          /\ ~last'.raised
          /\ UNCHANGED << session_span, tool_spans, metrics, messages >> ]_vars

\* C7: complete_session with a session open never raises and leaves the
\* controller reset (IDLE, everything emptied), whatever the flush does.
C7_CompleteAlwaysResets ==
    (last.op = "complete" /\ last.span # 0) =>
        /\ ~last.raised
        /\ session_span = 0
        /\ tool_spans = <<>>
        /\ metrics = NoMetrics
        /\ messages = <<>>
        /\ tools_used = <<>>

\* C8: on_pre_tool_use with no session open raises and changes nothing: no
\* span started, no table entry, usage list and tool count as before.
C8_PreToolWithoutSession ==
    [][ (Step("pre") /\ session_span = 0) =>
          /\ last'.raised
          /\ UNCHANGED << ctrl, spans >> ]_vars

\* C8 witness: a pre-tool-use raised after an earlier session had used tools
C8_Witness ==
    /\ last.op = "pre"
    /\ last.raised
    /\ session_span = 0
    /\ ToolSpanIds # {}

\* C9: end() is called at most once on every span.
C9_NoSpanEndedTwice ==
    \A i \in DOMAIN spans : spans[i].ends <= 1

\* C10: while tool calls come without call id and strictly one after the
\* other, each post ends (once) the span of the pre just before it and
\* empties the table, and the tool count is the number of pre calls.
C10_SequentialNoId ==
    /\ (seqRun /\ last.op = "post") =>
          /\ last.span \in ToolSpanIds
          /\ \A j \in ToolSpanIds : j <= last.span
          /\ spans[last.span].tool = last.tool
          /\ spans[last.span].ends = 1
    /\ (seqRun /\ openTool = None) => tool_spans = <<>>
    /\ (seqRun /\ session_span # 0) => metrics.tools_used = preCount

\* C10 witness: the second sequential pair of a session has completed
C10_Witness ==
    /\ seqRun
    /\ last.op = "post"
    /\ last.span # 0
    /\ session_span # 0
    /\ metrics.tools_used = 2
    /\ tool_spans = <<>>

\* C11: right after a prompt-submit the session's counters are all zero and
\* the session span's title is the marker-prefixed prompt when the prompt has
\* at most 60 characters, else its first 60 characters followed by "...".
C11_FreshSessionTitle ==
    last.op = "prompt" =>
        LET p == metrics.prompt
            title == spans[last.span].name
        IN  /\ session_span = last.span
            /\ metrics.tools_used = 0
            /\ metrics.turns = 0
            /\ metrics.input_tokens = 0
            /\ metrics.output_tokens = 0
            /\ Len(p) <= 60 =>
                  title = << "robot", " " >> \o p
            /\ Len(p) > 60 =>
                  /\ Len(title) = 2 + 60 + 3
                  /\ \A i \in 1..60 : title[2 + i] = p[i]
                  /\ \A i \in 1..3 : title[62 + i] = "."

\* C11 witness: a session opened with a prompt longer than the preview,
\* on a controller that had counted a tool before
C11_Witness ==
    /\ last.op = "prompt"
    /\ Len(metrics.prompt) > 60
    /\ \E i \in DOMAIN spans : spans[i].kind = "tool"

\* C11 witness of the boundary: a prompt of exactly 60 characters
C11_WitnessBoundary ==
    /\ last.op = "prompt"
    /\ Len(metrics.prompt) = 60

\* C12: a post-tool-use that resolves to an open span returns normally, ends
\* the span and removes its entry; the span carries the error attribute
\* exactly for an output dict with an "error" key and the is-error flag
\* exactly for an output dict whose isError is true.
C12_ToolErrorRecorded ==
    (last.op = "post" /\ last.span # 0) =>
        LET s == spans[last.span]
        IN  /\ ~last.raised
            /\ s.ends = 1
            /\ last.key \notin Keys(tool_spans)
            /\ ("tool.error" \in s.attrs) <=>
                  (last.resp \in { "error", "errorAndIsError" })
            /\ ("tool.is_error" \in s.attrs) <=>
                  (last.resp \in { "isError", "errorAndIsError" })

\* C12 witness: an output {"error": ...} recorded on the span that was found
C12_Witness ==
    /\ last.op = "post"
    /\ last.span # 0
    /\ last.resp = "error"
    /\ "tool.error" \in spans[last.span].attrs

\* C13: format_for_logfire_llm called with a response: when both token
\* counts are zero (or absent) the response blob has no usage sub-object;
\* when both are nonzero the usage sub-object is present and holds the input
\* count, the output count and a total equal to their sum.
C13_UsageSubObject ==
    (fmt.pc # "idle" /\ "response_data" \in fmt.attrs) =>
        LET b == fmt.response_data
            i == fmt.input_tokens
            o == fmt.output_tokens
        IN  /\ (~Truthy(i) /\ ~Truthy(o)) => "usage" \notin b.keys
            /\ (Truthy(i) /\ Truthy(o)) =>
                  /\ "usage" \in b.keys
                  /\ DOMAIN b.usage =
                        { "input_tokens", "output_tokens", "total_tokens" }
                  /\ b.usage["input_tokens"] = i[1]
                  /\ b.usage["output_tokens"] = o[1]
                  /\ b.usage["total_tokens"] = i[1] + o[1]

\* C13 witness: a blob written for the counts 1 and 2, its total 3
C13_Witness ==
    /\ fmt.pc = "done"
    /\ "response_data" \in fmt.attrs
    /\ fmt.input_tokens = << 1 >>
    /\ fmt.output_tokens = << 2 >>
    /\ fmt.response_data.usage["total_tokens"] = 3

\* C13 witness of the other case: a blob written for two zero counts
C13_WitnessZero ==
    /\ fmt.pc = "done"
    /\ "response_data" \in fmt.attrs
    /\ fmt.input_tokens = << 0 >>
    /\ fmt.output_tokens = << 0 >>

\* C14: format_for_logfire_llm never raises: whichever step fails, the call
\* returns normally and every attribute set on the span before the failing
\* step is still set.
C14_NeverRaises ==
    [][fmt.pc = "run" =>
          /\ ~fmt'.raised
          /\ fmt.attrs \subseteq fmt'.attrs
          /\ fmt'.failed => fmt'.pc = "done"]_vars

\* C14 witness: a call that failed after two attributes were set, returned
\* with exactly those two
C14_Witness ==
    /\ fmt.pc = "done"
    /\ fmt.failed
    /\ ~fmt.raised
    /\ fmt.attrs = { "request_data", "llm.request.model" }

\* C15: in both runners complete_session() is on the cleanup path of the
\* agent call: however the call is left (return, exception, interruption),
\* complete_session() has run exactly once when the function or the loop
\* iteration is left, and no session the prompt-submit hook opened is still
\* open then.
C15_CleanupAlwaysRuns ==
    run.pc \in { "after", "exited" } =>
        /\ run.completes = 1
        /\ run.prompted =>
              /\ spans[run.session].kind = "session"
              /\ spans[run.session].ends = 1
        /\ \A i \in DOMAIN spans :
              spans[i].kind = "session" => spans[i].ends = 1

\* C15 witness: an interrupted agent call whose session was completed, in
\* the second iteration of the interactive loop
C15_Witness ==
    /\ run.pc = "exited"
    /\ run.mode = "interactive"
    /\ run.prompts = 2
    /\ run.prompted
    /\ run.exit = "interrupt"
    /\ run.completes = 1
    /\ spans[run.session].ends = 1

\* C15 witness for run_agent_with_telemetry: the agent call raised
C15_WitnessSingle ==
    /\ run.pc = "exited"
    /\ run.mode = "single"
    /\ run.prompted
    /\ run.exit = "exception"
    /\ spans[run.session].ends = 1

\* the environment variable a telemetry option sets
EnvOf(env, name) ==
    CASE name = "logfire-token" -> env.LOGFIRE_TOKEN
      [] name = "otel-endpoint" -> env.OTEL_EXPORTER_OTLP_ENDPOINT
      [] OTHER -> env.OTEL_EXPORTER_OTLP_HEADERS

\* the places of a telemetry option in argv, in either syntax
Occurrences(argv, name) ==
    { i \in 1..Len(argv) :
        argv[i] = Opt(name) \/ StartsWith(argv[i], OptEq(name, <<>>)) }

\* the value V the option at place i is given
GivenValue(argv, i, name) ==
    IF argv[i] = Opt(name) THEN argv[i + 1]
    ELSE SubSeq(argv[i], Len(OptEq(name, <<>>)) + 1, Len(argv[i]))

\* each telemetry option is given at most once, and in the space form it is
\* followed by a value
OptionsWellFormed(argv) ==
    \A name \in TelemetryOptions :
        /\ Cardinality(Occurrences(argv, name)) <= 1
        /\ \A i \in Occurrences(argv, name) :
              argv[i] = Opt(name) =>
                  i + 1 <= Len(argv) /\ ~IsFlag(argv[i + 1])

\* C16: parse_args sets LOGFIRE_TOKEN, OTEL_EXPORTER_OTLP_ENDPOINT and
\* OTEL_EXPORTER_OTLP_HEADERS to the value V of --logfire-token,
\* --otel-endpoint and --otel-headers in both syntaxes ("--opt V" and
\* "--opt=V", V possibly containing "="), and does not forward these options
\* in the pass-through args.
C16_TelemetryOptionsBothForms ==
    (cli.pc = "parsed" /\ OptionsWellFormed(cli.argv)) =>
        \A name \in TelemetryOptions :
            \A i \in Occurrences(cli.argv, name) :
                /\ EnvOf(cli.environ, name) = GivenValue(cli.argv, i, name)
                /\ << name >> \notin DOMAIN cli.extra_args

\* the pass-through arguments that stand alone: not a flag, and not right
\* after a flag without "="
Standalone(l) ==
    { i \in 1..Len(l) :
        /\ ~IsFlag(l[i])
        /\ i > 1 => ~(IsFlag(l[i - 1]) /\ ~HasEq(l[i - 1])) }

\* the largest element of a non-empty set of numbers
Max(S) == CHOOSE m \in S : \A n \in S : n <= m

\* the name of a flag: what precedes its first "=" (all of it when it has
\* none), without the leading "-"
FlagName(arg) ==
    LET eqs == { n \in 1..Len(arg) : arg[n] = "=" }
        upto == IF eqs = {} THEN Len(arg)
                ELSE (CHOOSE n \in eqs : \A m \in eqs : n <= m) - 1
    IN  LStripDash(SubSeq(arg, 1, upto))

\* the value written in a flag: what follows its first "="
FlagValue(arg) ==
    LET eqs == { n \in 1..Len(arg) : arg[n] = "=" }
    IN  SubSeq(arg, (CHOOSE n \in eqs : \A m \in eqs : n <= m) + 1, Len(arg))

\* the names of the flags of a list
FlagKeys(l) == { FlagName(l[i]) : i \in { j \in 1..Len(l) : IsFlag(l[j]) } }

\* C17 as stated: whenever the last command-line argument does not start
\* with "-" it is returned as the prompt; with no non-flag argument the
\* prompt is None and every flag is returned in extra_args.
C17_LastArgumentIsPrompt ==
    cli.pc = "parsed" =>
        /\ (cli.argv # <<>> /\ ~IsFlag(cli.argv[Len(cli.argv)])) =>
              cli.prompt = cli.argv[Len(cli.argv)]
        /\ (\A i \in 1..Len(cli.argv) : IsFlag(cli.argv[i])) =>
              /\ cli.prompt = None
              /\ FlagKeys(cli.argv) \subseteq DOMAIN cli.extra_args

\* C17 amended: the prompt is the last pass-through argument that does not
\* start with "-" and does not directly follow a flag written without "="
\* (such an argument is that flag's value); it is removed from the
\* pass-through args before they are parsed.  When there is no such argument
\* the prompt is None and every pass-through flag is a key of extra_args.
C17_PromptIsLastStandalone ==
    cli.pc = "parsed" =>
        LET l == cli.extra_args_list
        IN  /\ Standalone(l) # {} =>
                  /\ cli.prompt_idx = Max(Standalone(l))
                  /\ cli.prompt = l[cli.prompt_idx]
                  /\ cli.extra_args = parse_flags(DictDelAt(l, cli.prompt_idx))
            /\ Standalone(l) = {} =>
                  /\ cli.prompt = None
                  /\ cli.extra_args = parse_flags(l)
            /\ FlagKeys(l) = DOMAIN cli.extra_args

\* C17 witness: "--model auth=b do": the prompt is the last argument and the
\* one before it stays the flag's value
C17_Witness ==
    /\ cli.pc = "parsed"
    /\ cli.argv = << Opt("model"), << "auth", "=", "b" >>, << "do" >> >>
    /\ cli.prompt = << "do" >>
    /\ cli.prompt_idx = 3
    /\ cli.extra_args[<< "model" >>] = << "auth", "=", "b" >>

\* C17 witness of the case the statement misses: "--model do" has a last
\* argument without "-" and no prompt
C17_WitnessFlagValue ==
    /\ cli.pc = "parsed"
    /\ cli.argv = << Opt("model"), << "do" >> >>
    /\ cli.prompt = None
    /\ cli.extra_args[<< "model" >>] = << "do" >>

\* the flag at place i of args is the last one with its key
LastOfKey(args, i) ==
    \A j \in (i + 1)..Len(args) :
        IsFlag(args[j]) => FlagName(args[j]) # FlagName(args[i])

\* C18: _parse_flags gives a dict keyed by the flag names without their
\* leading "-": "--k=v" gives k -> v, split at the first "="; a flag without
\* "=" followed by an argument not starting with "-" gives k -> that
\* argument; followed by a flag or by nothing, k -> None; the empty list
\* gives the empty dict; every flag of the input is a key.  (Of two flags
\* with the same key the later one decides the value.)
C18_ParseFlags ==
    cli.pc = "flags" =>
        LET args == cli.argv
            d == cli.extra_args
        IN  /\ args = <<>> => DOMAIN d = {}
            /\ DOMAIN d = FlagKeys(args)
            /\ \A i \in 1..Len(args) :
                  (IsFlag(args[i]) /\ LastOfKey(args, i)) =>
                      /\ FlagName(args[i]) \in DOMAIN d
                      /\ d[FlagName(args[i])] =
                            IF HasEq(args[i]) THEN FlagValue(args[i])
                            ELSE IF i + 1 <= Len(args) /\ ~IsFlag(args[i + 1])
                            THEN args[i + 1]
                            ELSE None

\* C18 witness: ["--otel-headers=auth=b", "-m", "do"] gives
\* {"otel-headers": "auth=b", "m": "do"}
C18_Witness ==
    /\ cli.pc = "flags"
    /\ cli.argv = << OptEq("otel-headers", << "auth", "=", "b" >>),
                     << "-", "m" >>, << "do" >> >>
    /\ DOMAIN cli.extra_args = { << "otel-headers" >>, << "m" >> }
    /\ cli.extra_args[<< "otel-headers" >>] = << "auth", "=", "b" >>
    /\ cli.extra_args[<< "m" >>] = << "do" >>

\* C19: main() ends with exit code 0 when the run returns or is interrupted
\* by the user (KeyboardInterrupt out of the run) and with exit code 1 when
\* the run raises any other error.
C19_ExitCodes ==
    (cli.pc = "exited" /\ cli.outcome # "special") =>
        /\ cli.outcome \in { "return", "KeyboardInterrupt" } => cli.status = 0
        /\ cli.outcome \in { "RuntimeError", "ValueError" } => cli.status = 1

\* C20: when on_post_tool_use does not find its call id in the table (or has
\* none), the span the name fallback ends was opened by an on_pre_tool_use
\* for the same tool name, and among the open entries of that tool it is the
\* one inserted last.
C20_FallbackSameTool ==
    [][(Step("post") /\ last'.span # 0 /\ last'.key # last'.id) =>
          /\ spans[last'.span].tool = last'.tool
          /\ \A i \in 1..Len(tool_spans) :
                spans[tool_spans[i].span].tool = last'.tool =>
                    i <= IndexOf(tool_spans, last'.key)]_vars

\* every open entry of the table belongs to the open session
TableOfSession ==
    \A i \in 1..Len(tool_spans) : spans[tool_spans[i].span].parent = session_span

\* C21: an on_pre_tool_use without call id, following others of the same
\* session, synthesizes a key that is not in the table: it adds exactly one
\* new entry and overwrites no span that is still open.
C21_SynthesizedKeysDistinct ==
    [][(Step("pre") /\ ~last'.raised /\ last'.id = None /\ TableOfSession) =>
          /\ last'.key \notin Keys(tool_spans)
          /\ Len(tool_spans') = Len(tool_spans) + 1]_vars

RECURSIVE SumOf(_, _)
\* the sum of a field over a sequence of event payloads
SumOf(evs, field) ==
    IF evs = <<>> THEN 0
    ELSE evs[1][field] + SumOf(Tail(evs), field)

\* C22: in an open session whose span has "Turn completed" events, the
\* span's cumulative token attributes equal the running totals, which are
\* the sums of the input (output) tokens carried by those events; each event
\* carries its own turn's tokens, and its turn number is the turn count
\* right after the increment.
C22_CumulativeTokens ==
    (session_span # 0 /\ spans[session_span].turns # <<>>) =>
        LET s == spans[session_span]
        IN  /\ s.vals["gen_ai.usage.input_tokens"] = metrics.input_tokens
            /\ s.vals["gen_ai.usage.output_tokens"] = metrics.output_tokens
            /\ s.vals["gen_ai.usage.input_tokens"] = SumOf(s.turns, "input_tokens")
            /\ s.vals["gen_ai.usage.output_tokens"] = SumOf(s.turns, "output_tokens")
            /\ s.vals["turns"] = Len(s.turns)
            /\ \A i \in 1..Len(s.turns) :
                  /\ s.turns[i].turn = i
                  /\ << s.turns[i].input_tokens, s.turns[i].output_tokens >>
                        \in Usages

\* C22 witness: three turns, 1 + 0 + 1 input and 0 + 2 + 0 output tokens
C22_Witness ==
    /\ session_span # 0
    /\ Len(spans[session_span].turns) = 3
    /\ spans[session_span].vals["gen_ai.usage.input_tokens"] = 2
    /\ spans[session_span].vals["gen_ai.usage.output_tokens"] = 2
    /\ spans[session_span].turns[3].input_tokens = 1

\* C23: in an open session the tool count is the number of successful
\* on_pre_tool_use calls since the prompt-submit and the turn count is the
\* number of on_message_complete calls with usage since then; post-tool-use,
\* pre-compact and a message-complete without usage change neither.
C23_CountersCountEvents ==
    session_span # 0 =>
        /\ metrics.tools_used = preCount
        /\ metrics.turns = usageCount

\* C23, the frame part: the hooks that count nothing leave both counters
C23_OtherHooksKeepCounters ==
    [][(session_span # 0 /\ calls' = calls + 1 /\ ~last'.raised
          /\ (\/ last'.op \in { "post", "compact" }
              \/ last'.op = "message" /\ usageCount' = usageCount)) =>
          /\ metrics'.tools_used = metrics.tools_used
          /\ metrics'.turns = metrics.turns]_vars

\* C23 witness: two tools started and one turn counted, then a post-tool-use
C23_Witness ==
    /\ session_span # 0
    /\ last.op = "post"
    /\ metrics.tools_used = 2
    /\ metrics.turns = 1
    /\ preCount = 2
    /\ usageCount = 1

\* the session span as complete_session leaves it when it calls end():
\* ended once more, with the final attributes and the completion event
Finalized(before, after) ==
    /\ after.ends = before.ends + 1
    /\ { "gen_ai.request.model", "gen_ai.response.model", "tools_used" }
          \subseteq after.attrs
    /\ after.vals["tools_used"] = metrics.tools_used
    /\ tools_used # <<>> =>
          /\ "tool_names" \in after.attrs
          /\ after.names = { tools_used[i] : i \in 1..Len(tools_used) }
    /\ after.events = Append(before.events, "Completed")

\* C24: a complete_session() that returns normally has ended the session
\* span once, with the final attributes (model identifiers, tool count,
\* deduplicated tool names) and the completion event on it, and leaves the
\* controller idle: session_span cleared, table, metrics, message log and
\* tool-usage list empty.  The end precedes the flush: when the flush
\* raises, the span is already finalized.
C24_CompleteFinalizesAndResets ==
    [][Step("complete") =>
          /\ ~last'.raised =>
                /\ session_span # 0
                /\ Finalized(spans[session_span], spans'[session_span])
                /\ session_span' = 0
                /\ tool_spans' = <<>>
                /\ metrics' = NoMetrics
                /\ messages' = <<>>
                /\ tools_used' = <<>>
          /\ (last'.raised /\ session_span # 0) =>
                Finalized(spans[session_span], spans'[session_span])]_vars

\* C24 witness: a session that used the tool "R" twice, completed: the span
\* is ended, counts 2 tools and names one, and the controller is idle
C24_Witness ==
    /\ last.op = "complete"
    /\ ~last.raised
    /\ spans[last.span].ends = 1
    /\ spans[last.span].vals["tools_used"] = 2
    /\ spans[last.span].names = { << "R" >> }
    /\ session_span = 0
    /\ tool_spans = <<>>
    /\ tools_used = <<>>

\* the attributes format_for_logfire_llm puts on a span in every call
VendorAttributes == { "request_data", "llm.request.model", "span.kind",
                      "logfire.span_type" }

\* C25: with the Logfire backend active, a session span that
\* complete_session() has ended carries the vendor-shaped attributes (the
\* request blob and the LLM span-type markers); without it, it carries none.
C25_VendorProjectionApplied ==
    (last.op = "complete" /\ last.span # 0) =>
        /\ logfire => VendorAttributes \subseteq spans[last.span].attrs
        /\ ~logfire => VendorAttributes \cap spans[last.span].attrs = {}

\* C26: on_pre_compact changes no controller state: with a session open it
\* appends exactly one event to the session span and leaves session_span,
\* metrics, message log, tool-usage list and table as they were; idle, it
\* returns normally and changes nothing, the spans included.
C26_PreCompactNoStateChange ==
    [][Step("compact") =>
          /\ ~last'.raised
          /\ UNCHANGED ctrl
          /\ session_span = 0 => spans' = spans
          /\ session_span # 0 =>
                /\ spans'[session_span] =
                      AddEvent(spans[session_span], "Context compaction")
                /\ \A i \in DOMAIN spans :
                      i # session_span => spans'[i] = spans[i]
                /\ DOMAIN spans' = DOMAIN spans]_vars

\* C26 witness: a compaction in an open session with a tool in flight
C26_Witness ==
    /\ last.op = "compact"
    /\ session_span # 0
    /\ tool_spans # <<>>
    /\ spans[session_span].events[Len(spans[session_span].events)]
          = "Context compaction"

\* C26 witness of the idle case
C26_WitnessIdle ==
    /\ last.op = "compact"
    /\ session_span = 0
    /\ spans # <<>>

\* C27: the "Tool input" event carries str(tool_input) cut at 500
\* characters and the "Tool response" event str(tool_response) cut at 1000,
\* each followed by "..." exactly when the string was longer than the cap.
C27_PayloadEventsCapped ==
    /\ (last.op = "pre" /\ ~last.raised /\ last.input # <<>>) =>
          spans[last.span].texts["Tool input"] = Capped(last.input, InputCap)
    /\ (last.op = "post" /\ last.span # 0 /\ last.resp # "none") =>
          spans[last.span].texts["Tool response"] =
              Capped(ResponseStr(last.resp), ResponseCap)

\* the response half of C27 alone, which the code satisfies
ResponseEventCapped ==
    (last.op = "post" /\ last.span # 0 /\ last.resp # "none") =>
        spans[last.span].texts["Tool response"] =
            Capped(ResponseStr(last.resp), ResponseCap)

\* C28: every span ended by an on_post_tool_use that carries a call id X was
\* registered under the key X; a call id that is not in the table ends no
\* span of another call.
C28_SuppliedIdEndsOwnSpan ==
    (last.op = "post" /\ last.id # None /\ last.span # 0) =>
        last.key = last.id

\* C29: no span is mutated after end(): an ended span keeps its attributes
\* and events, and no tool span is started under an ended session span.
C29_NoMutationAfterEnd ==
    [][/\ \A i \in DOMAIN spans :
             spans[i].ends > 0 =>
                 /\ spans'[i].attrs = spans[i].attrs
                 /\ spans'[i].events = spans[i].events
       /\ \A i \in DOMAIN spans' \ DOMAIN spans :
             spans'[i].parent # 0 => spans[spans'[i].parent].ends = 0]_vars

\* C30: right after a successful on_user_prompt_submit the table is empty,
\* the tool-usage list is empty and the message log holds the new user
\* prompt alone.
C30_SessionsIsolated ==
    last.op = "prompt" =>
        /\ tool_spans = <<>>
        /\ tools_used = <<>>
        /\ messages = << "user" >>

\* span i is the value of an entry of the correlation table d
Registered(d, i) == \E k \in 1..Len(d) : d[k].span = i

\* a started tool span that is neither ended nor in the correlation table
Leaked(i) ==
    /\ spans[i].kind = "tool"
    /\ spans[i].ends = 0
    /\ ~Registered(tool_spans, i)

\* what a complete_session step and every later step do to open tool spans
LeakStep(completes) ==
    /\ completes =>
          /\ tool_spans' = <<>>
          /\ \A i \in DOMAIN spans :
                Registered(tool_spans, i) => spans'[i].ends = spans[i].ends
    /\ \A i \in DOMAIN spans :
          Leaked(i) => /\ spans'[i].ends = 0
                       /\ ~Registered(tool_spans', i)
    /\ (last'.op = "post" /\ calls' # calls /\ last'.span # 0) =>
          Registered(tool_spans, last'.span)

\* C31: every complete_session() called with a session open empties the
\* correlation table without calling end() on a tool span in it; a tool span
\* that is out of the table and not ended is never ended by a later hook and
\* never found again by on_post_tool_use.
C31_OpenToolSpansLeaked ==
    [][LeakStep(last'.op = "complete" /\ calls' # calls /\ last'.span # 0)]_vars

\* the same for a complete_session() that returns normally
C31_LeakedAfterNormalReturn ==
    [][LeakStep(/\ last'.op = "complete" /\ calls' # calls
                /\ last'.span # 0 /\ ~last'.raised)]_vars

\* a tool span left open by a complete_session() that returned normally, and
\* an on_post_tool_use carrying its call id that found nothing
C31_Witness ==
    /\ last.op = "post"
    /\ last.id # None
    /\ last.span = 0
    /\ \E i \in DOMAIN spans : Leaked(i) /\ spans[i].id = last.id
    /\ \E i \in DOMAIN spans : spans[i].kind = "session" /\ spans[i].ends = 1

\* C32: when the agent call raises or is interrupted before the
\* prompt-submit hook has opened a session, the exception that leaves the
\* try/finally is the agent's own (the exception or the interruption), not
\* an error raised by complete_session() in the finally block.
C32_CleanupDoesNotMask ==
    (run.pc \in { "after", "exited" } /\ ~run.prompted) =>
        run.exit \in { "exception", "interrupt" }

====
